---- MODULE Spec2Model ----
(***************************************************************************)
(* kgcr: concurrent discovery of custom resource instances.                *)
(* A model of src/main.go: main (flag/namespace resolution, CRD listing,   *)
(* filtering, worker pool, dispatch, aggregation, sort, report),           *)
(* crdWorker and getStoredVersion.                                         *)
(*                                                                         *)
(* Go strings are modelled as sequences of code points so that the         *)
(* comparison used by the sort is the real lexicographic comparison.       *)
(***************************************************************************)
EXTENDS Integers, Sequences, FiniteSets, TLC

(***************************************************************************)
(* Bounds of the model                                                     *)
(***************************************************************************)
\* last instant of the clock (time units = seconds of the timeout flag)
MaxNow == 6
\* a -timeout value that expires early in the run
ShortTimeout == 1
\* number of descriptors in the catalogs enumerated for the filter
MaxCRDs == 2
\* runtime.NumCPU() of the machine
NumCPU == 1

(***************************************************************************)
(* Program constants                                                       *)
(***************************************************************************)
\* per-request sub-deadline, context.WithTimeout(ctx, 5*time.Second)
RequestTimeout == 5
\* cap on the number of workers
WorkerCap == 20
\* multiplier of runtime.NumCPU()
WorkersPerCPU == 3

(***************************************************************************)
(* Strings                                                                 *)
(***************************************************************************)
EmptyStr == << >>
\* "Namespaced"
Namespaced == <<78, 97, 109, 101, 115, 112, 97, 99, 101, 100>>
\* "Cluster"
ClusterScoped == <<67, 108, 117, 115, 116, 101, 114>>
\* "default"
DefaultNs == <<100, 101, 102, 97, 117, 108, 116>>
\* "n1", "n2"
Ns1 == <<110, 49>>
Ns2 == <<110, 50>>
\* "v1", "v2"
V1 == <<118, 49>>
V2 == <<118, 50>>
\* "io", "ex"
GroupIo == <<105, 111>>
GroupEx == <<101, 120>>
\* "w", "g", "c", "s"
PluralW == <<119>>
PluralG == <<103>>
PluralC == <<99>>
PluralS == <<115>>
\* "a", "b", "f"
NameA == <<97>>
NameB == <<98>>
NameF == <<102>>
\* "."
Dot == <<46>>

RECURSIVE StrLess(_, _)
\* Go's  a < b  on strings: lexicographic by byte
StrLess(a, b) ==
    IF b = << >> THEN FALSE
    ELSE IF a = << >> THEN TRUE
    ELSE IF a[1] < b[1] THEN TRUE
    ELSE IF a[1] > b[1] THEN FALSE
    ELSE StrLess(Tail(a), Tail(b))

(***************************************************************************)
(* CRD descriptors (apiextensionsv1.CustomResourceDefinition)              *)
(***************************************************************************)
Version(n, st) == [Name |-> n, Storage |-> st]

CRD(plural, group, scope, versions) ==
    [Name |-> plural \o Dot \o group, Group |-> group, Plural |-> plural,
     Scope |-> scope, Versions |-> versions]

\* widgets: one version, flagged storage
Widgets == CRD(PluralW, GroupIo, Namespaced, <<Version(V1, TRUE)>>)
\* gadgets: storage version is the second one
Gadgets == CRD(PluralG, GroupIo, Namespaced, <<Version(V1, FALSE), Version(V2, TRUE)>>)
\* a second "w" kind in another group, no version flagged
WidgetsEx == CRD(PluralW, GroupEx, Namespaced, <<Version(V2, FALSE), Version(V1, FALSE)>>)
\* cluster-scoped kind
ClusterKind == CRD(PluralC, GroupIo, ClusterScoped, <<Version(V1, TRUE)>>)
\* namespaced kind without versions
Versionless == CRD(PluralS, GroupIo, Namespaced, << >>)

Item(name, ns) == [name |-> name, namespace |-> ns]

\* the instances stored in the cluster, per CRD name, in the order the API
\* server returns them
ClusterItems(crdName) ==
    IF crdName = Widgets.Name THEN <<Item(NameF, Ns1)>>
    ELSE IF crdName = Gadgets.Name THEN <<Item(NameB, Ns1), Item(NameA, Ns2)>>
    ELSE IF crdName = WidgetsEx.Name THEN <<Item(NameF, Ns2)>>
    ELSE IF crdName = ClusterKind.Name THEN <<Item(NameA, EmptyStr)>>
    ELSE << >>

\* catalogs the Resource Catalog Client may return in the pipeline runs
Catalogs ==
    { << >>,
      <<ClusterKind, Versionless>>,
      <<Widgets, Gadgets>>,
      <<Gadgets, ClusterKind, WidgetsEx>> }

\* the values of the -timeout flag; the last one never expires within MaxNow
Timeouts == {ShortTimeout, MaxNow + 1}

\* (-n flag, -A flag, namespace of the current kubeconfig context)
Flags ==
    { [n |-> EmptyStr, A |-> TRUE,  ctx |-> Ns1],
      [n |-> Ns1,      A |-> FALSE, ctx |-> EmptyStr] }

(***************************************************************************)
(* getStoredVersion                                                        *)
(***************************************************************************)
RECURSIVE StorageLoop(_, _)
\* the loop of getStoredVersion from index i: the index at which it returns,
\* 0 when it falls through
StorageLoop(versions, i) ==
    IF i > Len(versions) THEN 0
    ELSE IF versions[i].Storage THEN i
    ELSE StorageLoop(versions, i + 1)

\* variant: the storage flags are ignored, the first declared version is taken
getStoredVersion_FirstDeclared(crd) ==
    IF Len(crd.Versions) > 0 THEN crd.Versions[1].Name ELSE EmptyStr

getStoredVersion(crd) ==
    LET hit == StorageLoop(crd.Versions, 1)
    IN IF hit # 0 THEN crd.Versions[hit].Name
       ELSE IF Len(crd.Versions) > 0 THEN crd.Versions[1].Name
       ELSE EmptyStr

(***************************************************************************)
(* Instance Query Client (dynamicClient.Resource(gvr)[.Namespace(ns)].List)*)
(***************************************************************************)
\* the descriptors of the cluster that serve the coordinate gvr
Serving(cat, gvr) ==
    { i \in 1..Len(cat) :
        /\ cat[i].Group = gvr.Group
        /\ cat[i].Plural = gvr.Resource
        /\ \E k \in 1..Len(cat[i].Versions) : cat[i].Versions[k].Name = gvr.Version }

\* the items a successful List returns; ns = "" lists across all namespaces
ListItems(cat, gvr, ns) ==
    LET d == cat[CHOOSE i \in Serving(cat, gvr) : TRUE]
        all == ClusterItems(d.Name)
    IN IF ns = EmptyStr THEN all
       ELSE SelectSeq(all, LAMBDA it : it.namespace = ns)

(***************************************************************************)
(* The sort of main                                                        *)
(***************************************************************************)
\* variant: the comparison without the namespace key
less_NoNamespace(x, y) ==
    IF x.crdName # y.crdName THEN StrLess(x.crdName, y.crdName)
    ELSE IF x.resourceName # y.resourceName THEN StrLess(x.resourceName, y.resourceName)
    ELSE StrLess(x.instanceName, y.instanceName)

\* the less function handed to sort.Slice
less(x, y) ==
    IF x.crdName # y.crdName THEN StrLess(x.crdName, y.crdName)
    ELSE IF x.resourceName # y.resourceName THEN StrLess(x.resourceName, y.resourceName)
    ELSE IF x.namespace # y.namespace THEN StrLess(x.namespace, y.namespace)
    ELSE StrLess(x.instanceName, y.instanceName)

RECURSIVE Insert(_, _)
\* x placed in the sorted sequence s, before the first element greater than x
Insert(x, s) ==
    IF s = << >> THEN <<x>>
    ELSE IF less(x, s[1]) THEN <<x>> \o s
    ELSE <<s[1]>> \o Insert(x, Tail(s))

\* variant: the results are left in arrival order
SortSlice_Unsorted(s) == s

RECURSIVE SortSlice(_)
\* sort.Slice(allResults, less)
SortSlice(s) ==
    IF s = << >> THEN << >>
    ELSE Insert(s[Len(s)], SortSlice(SubSeq(s, 1, Len(s) - 1)))

(***************************************************************************)
(* Pure steps of main and crdWorker                                        *)
(***************************************************************************)
\* variant: the namespace is not cleared in all-namespaces mode
ResolveNamespace_NoClear(n, A, ctxNs) ==
    IF n = EmptyStr /\ ~A
    THEN (IF ctxNs # EmptyStr THEN ctxNs ELSE DefaultNs)
    ELSE n

\* lines 77-92: the namespace the pool is given
ResolveNamespace(n, A, ctxNs) ==
    LET n1 == IF n = EmptyStr /\ ~A
              THEN (IF ctxNs # EmptyStr THEN ctxNs ELSE DefaultNs)
              ELSE n
    IN IF A THEN EmptyStr ELSE n1

\* lines 130-140: the job of an eligible descriptor
\* variant: the coordinate names the first declared version
MakeJob_FirstVersion(crd, storedVersion) ==
    [crd |-> crd, storedVersion |-> storedVersion,
     gvr |-> [Group |-> crd.Group, Version |-> crd.Versions[1].Name, Resource |-> crd.Plural]]

MakeJob(crd, storedVersion) ==
    [crd |-> crd, storedVersion |-> storedVersion,
     gvr |-> [Group |-> crd.Group, Version |-> storedVersion, Resource |-> crd.Plural]]

\* variant: the scope of the descriptor is not looked at
FilterOne_NoScopeCheck(acc, crd) ==
    LET storedVersion == getStoredVersion(crd)
    IN IF storedVersion = EmptyStr THEN acc
       ELSE Append(acc, MakeJob(crd, storedVersion))

\* lines 119-141, one iteration: the job list after looking at crd
FilterOne(acc, crd) ==
    IF crd.Scope # Namespaced THEN acc
    ELSE LET storedVersion == getStoredVersion(crd)
         IN IF storedVersion = EmptyStr THEN acc
            ELSE Append(acc, MakeJob(crd, storedVersion))

Min(a, b) == IF a < b THEN a ELSE b

\* variant: the received value stays in the channel
ChanRecv_Peek(ch) == [val |-> Head(ch), rest |-> ch]

\* receive from a buffered channel: the value and the channel left
ChanRecv(ch) == [val |-> Head(ch), rest |-> Tail(ch)]

\* send on a buffered channel
ChanSend(ch, v) == Append(ch, v)

\* variant: the worker issues the List call of the failed job again
OnQueryError_Retry(pcs, w) == [pcs EXCEPT ![w] = "call"]

\* variant: the worker returns after a failed List call
OnQueryError_Return(pcs, w) == [pcs EXCEPT ![w] = "exit"]

\* lines 267-270: position of worker w after a failed List call (continue)
OnQueryError(pcs, w) == [pcs EXCEPT ![w] = "recv"]

\* variant: two workers per CPU
NumWorkers_TwoPerCPU(numJobs, cpus) == Min(Min(cpus * 2, numJobs), WorkerCap)

\* lines 153-159
NumWorkers(numJobs, cpus) == Min(Min(cpus * WorkersPerCPU, numJobs), WorkerCap)

\* variant: the worker does not look at ctx after receiving a job
AfterPull_NoCheck(pcs, w, done) == [pcs EXCEPT ![w] = "call"]

\* lines 240-244: position of worker w after the select on ctx.Done()
AfterPull(pcs, w, done) == [pcs EXCEPT ![w] = IF done THEN "exit" ELSE "call"]

\* variant: the List call is issued in the background and the worker goes on
AfterCall_Async(pcs, w) == [pcs EXCEPT ![w] = "recv"]

\* lines 258-264: worker w waits for the List call it issued
AfterCall(pcs, w) == [pcs EXCEPT ![w] = "query"]

\* variant: the request context is not derived from ctx
ReqDeadline_Detached(start, overall) == start + RequestTimeout

\* line 253: the deadline of context.WithTimeout(ctx, 5*time.Second)
ReqDeadline(start, overall) == Min(start + RequestTimeout, overall)

\* variant: the scratch slice keeps what it holds
ResetScratch_Keep(buf) == buf

\* line 247: workerResults[:0]
ResetScratch(buf) == << >>

\* variant: the resource kind is taken from the CRD name
RECURSIVE ToFound_KindFromName(_, _)
ToFound_KindFromName(job, items) ==
    IF items = << >> THEN << >>
    ELSE <<[crdName |-> job.crd.Name, resourceName |-> job.crd.Name,
            instanceName |-> items[1].name, namespace |-> items[1].namespace]>>
         \o ToFound_KindFromName(job, Tail(items))

\* lines 278-285: the found resources of one job
RECURSIVE ToFound(_, _)
ToFound(job, items) ==
    IF items = << >> THEN << >>
    ELSE <<[crdName |-> job.crd.Name, resourceName |-> job.gvr.Resource,
            instanceName |-> items[1].name, namespace |-> items[1].namespace]>>
         \o ToFound(job, Tail(items))

\* lines 208-228: what main prints for the sorted results
RECURSIVE Rows(_, _)
Rows(rs, allNs) ==
    IF rs = << >> THEN << >>
    ELSE <<IF allNs
           THEN <<rs[1].namespace, rs[1].crdName, rs[1].resourceName, rs[1].instanceName>>
           ELSE <<rs[1].crdName, rs[1].resourceName, rs[1].instanceName>> >>
         \o Rows(Tail(rs), allNs)

\* msg is the text of a message and arg the value printed after it
NoOutput == [msg |-> "", arg |-> EmptyStr, header |-> << >>, rows |-> << >>]

Render(rs, allNs, ns) ==
    IF Len(rs) > 0
    THEN [msg |-> "", arg |-> EmptyStr,
          header |-> IF allNs THEN <<"NAMESPACE", "CRD", "RESOURCE", "NAME">>
                     ELSE <<"CRD", "RESOURCE", "NAME">>,
          rows |-> Rows(rs, allNs)]
    ELSE IF allNs
    THEN [msg |-> "No custom resources found in any namespace", arg |-> EmptyStr,
          header |-> << >>, rows |-> << >>]
    ELSE [msg |-> "No custom resources found in namespace: ", arg |-> ns,
          header |-> << >>, rows |-> << >>]

(***************************************************************************)
(* State                                                                   *)
(***************************************************************************)
VARIABLES
    catalog,        \* cluster: the CRD descriptors registered in the cluster
    now,            \* the clock
    deadline,       \* instant at which ctx is done (the -timeout flag)
    namespace,      \* *namespace
    allNamespaces,  \* *allNamespaces
    ctxNamespace,   \* rawConfig.Contexts[current].Namespace
    numCPU,         \* runtime.NumCPU()
    mainPc,         \* position of main
    crdList,        \* crdList.Items
    filterIdx,      \* index of the filter loop
    namespacedCRDs, \* the jobs
    jobs,           \* buffered channel jobs
    jobsClosed,     \* close(jobs) was executed
    dispatchIdx,    \* index of the dispatch loop
    results,        \* buffered channel results
    resultsClosed,  \* close(results) was executed
    closerStarted,  \* the goroutine  wg.Wait(); close(results)  was started
    numWorkers,     \* number of crdWorker goroutines started
    wpc,            \* position of each worker
    wjob,           \* job of each worker
    workerResults,  \* scratch slice of each worker
    reqDeadline,    \* deadline of reqCtx of each worker
    queryCount,     \* Instance Query Client: number of List calls per CRD name
    outcome,        \* Instance Query Client: what the List call of a CRD returned
    queryArgs,      \* Instance Query Client: namespace argument of each List call per CRD name
    allResults,     \* allResults of main
    stdout,         \* what was printed on standard output
    stderr          \* message of log.Fatalf

vars == <<catalog, now, deadline, namespace, allNamespaces, ctxNamespace, numCPU, mainPc,
          crdList, filterIdx, namespacedCRDs, jobs, jobsClosed, dispatchIdx,
          results, resultsClosed, closerStarted, numWorkers, wpc, wjob,
          workerResults, reqDeadline, queryCount, outcome, queryArgs,
          allResults, stdout, stderr>>

clusterVars == <<catalog, deadline, ctxNamespace, numCPU>>
flagVars == <<namespace, allNamespaces>>
filterVars == <<crdList, filterIdx, namespacedCRDs>>
jobChanVars == <<jobs, jobsClosed, dispatchIdx>>
resultChanVars == <<results, resultsClosed, closerStarted>>
workerVars == <<numWorkers, wpc, wjob, workerResults, reqDeadline>>
clientVars == <<queryCount, outcome, queryArgs>>
outVars == <<allResults, stdout, stderr>>

\* ctx.Done() is closed
Cancelled == now >= deadline

\* the process has exited
Exited == mainPc \in {"done", "fatal", "panic"}

\* the exit status: 0 on return, 1 on log.Fatalf, 2 on panic; -1 while main runs
ExitCode ==
    IF mainPc = "panic" THEN 2
    ELSE IF mainPc = "fatal" THEN 1
    ELSE IF mainPc = "done" THEN 0
    ELSE -1

Workers == 1..numWorkers

NoJob == [crd |-> [Name |-> EmptyStr], storedVersion |-> EmptyStr,
          gvr |-> [Group |-> EmptyStr, Version |-> EmptyStr, Resource |-> EmptyStr]]

CatalogNames(cat) == { cat[i].Name : i \in 1..Len(cat) }

\* state of main with the flags parsed and ctx created (lines 42-51), at
\* position pc with crdList.Items = items
InitWith(cat, timeouts, flags, cpus, pc, items) ==
    /\ catalog = cat
    /\ now = 0
    /\ deadline \in timeouts
    /\ \E f \in flags :
         /\ namespace = f.n
         /\ allNamespaces = f.A
         /\ ctxNamespace = f.ctx
    /\ numCPU \in cpus
    /\ mainPc = pc
    /\ crdList = items
    /\ filterIdx = 1
    /\ namespacedCRDs = << >>
    /\ jobs = << >>
    /\ jobsClosed = FALSE
    /\ dispatchIdx = 1
    /\ results = << >>
    /\ resultsClosed = FALSE
    /\ closerStarted = FALSE
    /\ numWorkers = 0
    /\ wpc = << >>
    /\ wjob = << >>
    /\ workerResults = << >>
    /\ reqDeadline = << >>
    /\ queryCount = [n \in CatalogNames(cat) |-> 0]
    /\ outcome = [n \in CatalogNames(cat) |-> "none"]
    /\ queryArgs = [n \in CatalogNames(cat) |-> << >>]
    /\ allResults = << >>
    /\ stdout = NoOutput
    /\ stderr = ""

Init == \E cat \in Catalogs : InitWith(cat, Timeouts, Flags, {NumCPU}, "start", << >>)

(***************************************************************************)
(* The clock                                                               *)
(***************************************************************************)
Tick ==
    /\ ~Exited
    /\ now < MaxNow
    /\ now' = now + 1
    /\ UNCHANGED <<clusterVars, flagVars, mainPc, filterVars, jobChanVars,
                   resultChanVars, workerVars, clientVars, outVars>>

(***************************************************************************)
(* main                                                                    *)
(***************************************************************************)
\* line 70, panic(err.Error()): the process exits with status 2
Panic ==
    /\ mainPc' = "panic"
    /\ stderr' = "panic"

\* log.Fatalf: the process exits with status 1, all goroutines die
Fatal(msg) ==
    /\ mainPc' = "fatal"
    /\ stderr' = msg

\* lines 53-109: kubeconfig and clients; namespace resolution
Configure ==
    /\ mainPc = "start"
    /\ \/ \* line 59: RawConfig fails
          /\ Fatal("Error loading kubeconfig")
          /\ UNCHANGED namespace
       \/ \* line 68: ClientConfig fails
          /\ Panic
          /\ UNCHANGED namespace
       \/ \* line 100: the namespace is resolved, NewForConfig fails
          /\ namespace' = ResolveNamespace(namespace, allNamespaces, ctxNamespace)
          /\ Fatal("Error creating apiextensions client")
       \/ \* line 106: the namespace is resolved, dynamic.NewForConfig fails
          /\ namespace' = ResolveNamespace(namespace, allNamespaces, ctxNamespace)
          /\ Fatal("Error creating dynamic client")
       \/ /\ namespace' = ResolveNamespace(namespace, allNamespaces, ctxNamespace)
          /\ mainPc' = "list"
          /\ UNCHANGED stderr
    /\ UNCHANGED <<clusterVars, now, allNamespaces, filterVars, jobChanVars,
                   resultChanVars, workerVars, clientVars, allResults, stdout>>

\* variant: the list call does not observe ctx (context.TODO())
ListMaySucceed_NoCtx == TRUE

\* line 112: the list call is made under ctx, it returns a list only while ctx is live
ListMaySucceed == ~Cancelled

\* lines 112-115: the CRD list call under ctx
ListCRDs ==
    /\ mainPc = "list"
    /\ \/ /\ ListMaySucceed
          /\ crdList' = catalog
          /\ mainPc' = "filter"
          /\ UNCHANGED stderr
       \/ /\ Fatal("Error listing CRDs")
          /\ UNCHANGED crdList
    /\ UNCHANGED <<clusterVars, now, flagVars, filterIdx, namespacedCRDs, jobChanVars,
                   resultChanVars, workerVars, clientVars, allResults, stdout>>

\* lines 119-141: one iteration of the filter loop
FilterStep ==
    /\ mainPc = "filter"
    /\ filterIdx <= Len(crdList)
    /\ namespacedCRDs' = FilterOne(namespacedCRDs, crdList[filterIdx])
    /\ filterIdx' = filterIdx + 1
    /\ UNCHANGED <<clusterVars, now, flagVars, mainPc, crdList, jobChanVars,
                   resultChanVars, workerVars, clientVars, outVars>>

\* variant: main does not return on an empty job list
NoJobs_FallThrough ==
    /\ mainPc = "filter"
    /\ filterIdx > Len(crdList)
    /\ Len(namespacedCRDs) = 0
    /\ mainPc' = "dispatch"
    /\ UNCHANGED <<clusterVars, now, flagVars, filterVars, jobChanVars,
                   resultChanVars, workerVars, clientVars, outVars>>

\* lines 143-146: no eligible CRD
NoJobs ==
    /\ mainPc = "filter"
    /\ filterIdx > Len(crdList)
    /\ Len(namespacedCRDs) = 0
    /\ stdout' = [NoOutput EXCEPT !.msg = "No namespaced custom resources found in cluster"]
    /\ mainPc' = "done"
    /\ UNCHANGED <<clusterVars, now, flagVars, filterVars, jobChanVars,
                   resultChanVars, workerVars, clientVars, allResults, stderr>>

\* lines 148-166: channels are made and the workers are started
StartPool ==
    /\ mainPc = "filter"
    /\ filterIdx > Len(crdList)
    /\ Len(namespacedCRDs) # 0
    /\ numWorkers' = NumWorkers(Len(namespacedCRDs), numCPU)
    /\ wpc' = [w \in 1..numWorkers' |-> "recv"]
    /\ wjob' = [w \in 1..numWorkers' |-> NoJob]
    /\ workerResults' = [w \in 1..numWorkers' |-> << >>]
    /\ reqDeadline' = [w \in 1..numWorkers' |-> 0]
    /\ mainPc' = "dispatch"
    /\ UNCHANGED <<clusterVars, now, flagVars, filterVars, jobChanVars,
                   resultChanVars, clientVars, outVars>>

\* capacity of both channels
\* variant: one slot too few
ChanCap_OneLess == Len(namespacedCRDs) - 1

ChanCap == Len(namespacedCRDs)

\* lines 169-176: one iteration of the dispatch loop, a select of two cases
Dispatch ==
    /\ mainPc = "dispatch"
    /\ dispatchIdx <= Len(namespacedCRDs)
    /\ \/ /\ Len(jobs) < ChanCap
          /\ jobs' = ChanSend(jobs, namespacedCRDs[dispatchIdx])
          /\ dispatchIdx' = dispatchIdx + 1
          /\ UNCHANGED <<jobsClosed, mainPc, stderr>>
       \/ \* case <-ctx.Done(): close(jobs)
          /\ Cancelled
          /\ jobsClosed' = TRUE
          /\ mainPc' = "abort"
          /\ UNCHANGED <<jobs, dispatchIdx, stderr>>
    /\ UNCHANGED <<clusterVars, now, flagVars, filterVars, resultChanVars,
                   workerVars, clientVars, allResults, stdout>>

\* variant: the timeout is logged and the dispatch loop goes on
AbortDispatch_Continue ==
    /\ mainPc = "abort"
    /\ mainPc' = "dispatch"
    /\ stderr' = "Timeout while sending jobs"
    /\ UNCHANGED <<clusterVars, now, flagVars, filterVars, jobChanVars, resultChanVars,
                   workerVars, clientVars, allResults, stdout>>

\* line 174: log.Fatalf after close(jobs)
AbortDispatch ==
    /\ mainPc = "abort"
    /\ Fatal("Timeout while sending jobs")
    /\ UNCHANGED <<clusterVars, now, flagVars, filterVars, jobChanVars, resultChanVars,
                   workerVars, clientVars, allResults, stdout>>

\* lines 177-186: close(jobs), start of the goroutine that closes results
EndDispatch ==
    /\ mainPc = "dispatch"
    /\ dispatchIdx > Len(namespacedCRDs)
    /\ jobsClosed' = TRUE
    /\ closerStarted' = TRUE
    /\ mainPc' = "collect"
    /\ UNCHANGED <<clusterVars, now, flagVars, filterVars, jobs, dispatchIdx,
                   results, resultsClosed, workerVars, clientVars, outVars>>

\* variant: results is closed without waiting for the workers
WaitGroupDone_NoWait == TRUE

\* line 181: wg.Wait() returns once every worker has called wg.Done()
WaitGroupDone == \A w \in Workers : wpc[w] = "exit"

\* lines 180-183: wg.Wait() returns, close(results)
CloseResults ==
    /\ ~Exited
    /\ closerStarted
    /\ ~resultsClosed
    /\ WaitGroupDone
    /\ resultsClosed' = TRUE
    /\ UNCHANGED <<clusterVars, now, flagVars, mainPc, filterVars, jobChanVars,
                   results, closerStarted, workerVars, clientVars, outVars>>

\* lines 189-191: one batch received from results
Collect ==
    /\ mainPc = "collect"
    /\ results # << >>
    /\ allResults' = allResults \o ChanRecv(results).val
    /\ results' = ChanRecv(results).rest
    /\ UNCHANGED <<clusterVars, now, flagVars, mainPc, filterVars, jobChanVars,
                   resultsClosed, closerStarted, workerVars, clientVars, stdout, stderr>>

\* lines 189-229: results is closed and drained; sort, print, return
Report ==
    /\ mainPc = "collect"
    /\ results = << >>
    /\ resultsClosed
    /\ allResults' = SortSlice(allResults)
    /\ stdout' = Render(allResults', allNamespaces, namespace)
    /\ mainPc' = "done"
    /\ UNCHANGED <<clusterVars, now, flagVars, filterVars, jobChanVars,
                   resultChanVars, workerVars, clientVars, stderr>>

(***************************************************************************)
(* crdWorker                                                               *)
(***************************************************************************)
\* the namespace argument of the List call (line 258)
QueryNamespace == IF allNamespaces \/ namespace = EmptyStr THEN EmptyStr ELSE namespace

\* line 238: a job is received from the job channel
PullJob(w) ==
    /\ ~Exited
    /\ wpc[w] = "recv"
    /\ jobs # << >>
    /\ jobs' = ChanRecv(jobs).rest
    /\ wjob' = [wjob EXCEPT ![w] = ChanRecv(jobs).val]
    /\ wpc' = [wpc EXCEPT ![w] = "check"]
    /\ UNCHANGED <<clusterVars, now, flagVars, mainPc, filterVars, jobsClosed, dispatchIdx,
                   resultChanVars, numWorkers, workerResults, reqDeadline, clientVars,
                   outVars>>

\* lines 240-244: select on ctx.Done() with a default
CheckCancel(w) ==
    /\ ~Exited
    /\ wpc[w] = "check"
    /\ wpc' = AfterPull(wpc, w, Cancelled)
    /\ UNCHANGED <<clusterVars, now, flagVars, mainPc, filterVars, jobChanVars,
                   resultChanVars, numWorkers, wjob, workerResults, reqDeadline,
                   clientVars, outVars>>

\* lines 246-264: the scratch slice is reset, reqCtx is made, the List call is issued
StartQuery(w) ==
    /\ ~Exited
    /\ wpc[w] = "call"
    /\ wpc' = AfterCall(wpc, w)
    /\ workerResults' = [workerResults EXCEPT ![w] = ResetScratch(@)]
    /\ reqDeadline' = [reqDeadline EXCEPT ![w] = ReqDeadline(now, deadline)]
    /\ queryCount' = [queryCount EXCEPT ![wjob[w].crd.Name] = @ + 1]
    /\ queryArgs' = [queryArgs EXCEPT ![wjob[w].crd.Name] = Append(@, QueryNamespace)]
    /\ UNCHANGED <<clusterVars, now, flagVars, mainPc, filterVars, jobChanVars,
                   resultChanVars, numWorkers, wjob, outcome, outVars>>

\* line 238: jobs is closed and drained, the worker returns
JobsDrained(w) ==
    /\ ~Exited
    /\ wpc[w] = "recv"
    /\ jobs = << >>
    /\ jobsClosed
    /\ wpc' = [wpc EXCEPT ![w] = "exit"]
    /\ UNCHANGED <<clusterVars, now, flagVars, mainPc, filterVars, jobChanVars,
                   resultChanVars, numWorkers, wjob, workerResults, reqDeadline,
                   clientVars, outVars>>

\* lines 256-286: the List call returns
QueryReturn(w) ==
    /\ ~Exited
    /\ wpc[w] = "query"
    /\ \/ \* err == nil: only while reqCtx is live and the coordinate is served
          /\ now < reqDeadline[w]
          /\ Serving(catalog, wjob[w].gvr) # {}
          /\ outcome' = [outcome EXCEPT ![wjob[w].crd.Name] = "ok"]
          /\ LET found == ToFound(wjob[w], ListItems(catalog, wjob[w].gvr, QueryNamespace))
             IN /\ workerResults' = [workerResults EXCEPT ![w] = @ \o found]
                /\ wpc' = [wpc EXCEPT ![w] =
                             IF Len(workerResults'[w]) > 0 THEN "send" ELSE "recv"]
       \/ \* err != nil: continue
          /\ outcome' = [outcome EXCEPT ![wjob[w].crd.Name] = "err"]
          /\ wpc' = OnQueryError(wpc, w)
          /\ UNCHANGED workerResults
    /\ UNCHANGED <<clusterVars, now, flagVars, mainPc, filterVars, jobChanVars,
                   resultChanVars, numWorkers, wjob, reqDeadline, queryCount, queryArgs,
                   outVars>>

\* lines 288-298: the copy of the batch is handed off, a select of two cases
SendResult(w) ==
    /\ ~Exited
    /\ wpc[w] = "send"
    /\ \/ /\ Len(results) < ChanCap
          /\ results' = ChanSend(results, workerResults[w])
          /\ wpc' = [wpc EXCEPT ![w] = "recv"]
       \/ /\ Cancelled
          /\ wpc' = [wpc EXCEPT ![w] = "exit"]
          /\ UNCHANGED results
    /\ UNCHANGED <<clusterVars, now, flagVars, mainPc, filterVars, jobChanVars,
                   resultsClosed, closerStarted, numWorkers, wjob, workerResults,
                   reqDeadline, clientVars, outVars>>

Worker(w) == PullJob(w) \/ CheckCancel(w) \/ JobsDrained(w) \/ StartQuery(w)
             \/ QueryReturn(w) \/ SendResult(w)

Main == Configure \/ ListCRDs \/ FilterStep \/ NoJobs \/ StartPool
        \/ Dispatch \/ AbortDispatch \/ EndDispatch \/ Collect \/ Report

Next ==
    \/ Tick
    \/ Configure
    \/ ListCRDs
    \/ FilterStep
    \/ NoJobs
    \/ StartPool
    \/ Dispatch
    \/ AbortDispatch
    \/ EndDispatch
    \/ CloseResults
    \/ Collect
    \/ Report
    \/ \E w \in Workers : PullJob(w)
    \/ \E w \in Workers : CheckCancel(w)
    \/ \E w \in Workers : JobsDrained(w)
    \/ \E w \in Workers : StartQuery(w)
    \/ \E w \in Workers : QueryReturn(w)
    \/ \E w \in Workers : SendResult(w)

Spec == Init /\ [][Next]_vars

\* every step but the clock's
Progress ==
    \/ Main
    \/ CloseResults
    \/ \E w \in Workers : Worker(w)

\* the Go scheduler runs every runnable goroutine, and every List call returns
FairSpec == Spec /\ WF_vars(Progress)

(***************************************************************************)
(* The filter on every descriptor list of at most MaxCRDs descriptors      *)
(***************************************************************************)
VersionNames == {V1, V2}

VersionLists ==
    UNION { [1..n -> [Name : VersionNames, Storage : BOOLEAN]] : n \in 0..2 }

\* the plural of the descriptor at position i: "a", "b", ...
PluralAt(i) == <<96 + i>>

\* the descriptor list with scopes sc and version lists vs
DescriptorList(n, sc, vs) == [i \in 1..n |-> CRD(PluralAt(i), GroupIo, sc[i], vs[i])]

\* main after a successful CRD list call, for every list of n <= MaxCRDs descriptors
FilterInit ==
    \E n \in 0..MaxCRDs :
        \E sc \in [1..n -> {Namespaced, ClusterScoped}], vs \in [1..n -> VersionLists] :
            InitWith(DescriptorList(n, sc, vs), {MaxNow + 1},
                     {[n |-> EmptyStr, A |-> TRUE, ctx |-> EmptyStr]},
                     {NumCPU}, "filter", DescriptorList(n, sc, vs))

FilterNext ==
    \/ FilterStep
    \/ NoJobs
    \/ StartPool

FilterSpec == FilterInit /\ [][FilterNext]_vars

(***************************************************************************)
(* The size of the pool for every number of jobs and of CPUs               *)
(***************************************************************************)
\* largest number of eligible descriptors
MaxJobs == 22
\* largest runtime.NumCPU()
MaxCPUs == 8

\* n namespaced descriptors with one storage version each
EligibleList(n) == [i \in 1..n |-> CRD(PluralAt(i), GroupIo, Namespaced, <<Version(V1, TRUE)>>)]

\* main after a successful CRD list call that returned n eligible descriptors
PoolInit ==
    \E n \in 0..MaxJobs :
        InitWith(EligibleList(n), {MaxNow + 1},
                 {[n |-> EmptyStr, A |-> TRUE, ctx |-> EmptyStr]},
                 1..MaxCPUs, "filter", EligibleList(n))

PoolSpec == PoolInit /\ [][FilterNext]_vars

(***************************************************************************)
(* The pool under load: more jobs than workers, the deadline out of reach  *)
(***************************************************************************)
\* a fourth eligible CRD, without instances
Sprockets == CRD(PluralS, GroupEx, Namespaced, <<Version(V1, TRUE)>>)

LoadCatalog == <<Widgets, Gadgets, WidgetsEx, Sprockets>>

\* main after a successful CRD list call that returned the four descriptors
LoadInit ==
    InitWith(LoadCatalog, {MaxNow + 1},
             {[n |-> EmptyStr, A |-> TRUE, ctx |-> EmptyStr]},
             {NumCPU}, "filter", LoadCatalog)

\* every step of main and of the workers from the filter on; the clock stands
LoadNext ==
    \/ FilterStep
    \/ StartPool
    \/ Dispatch
    \/ EndDispatch
    \/ CloseResults
    \/ Collect
    \/ Report
    \/ \E w \in Workers : PullJob(w)
    \/ \E w \in Workers : CheckCancel(w)
    \/ \E w \in Workers : JobsDrained(w)
    \/ \E w \in Workers : StartQuery(w)
    \/ \E w \in Workers : QueryReturn(w)
    \/ \E w \in Workers : SendResult(w)

LoadSpec == LoadInit /\ [][LoadNext]_vars

(***************************************************************************)
(* The pipeline for every combination of the namespace flags               *)
(***************************************************************************)
\* (-n flag, -A flag, namespace of the current kubeconfig context)
AllFlags ==
    Flags \cup
    { [n |-> Ns2,      A |-> TRUE,  ctx |-> Ns1],
      [n |-> EmptyStr, A |-> FALSE, ctx |-> Ns2],
      [n |-> EmptyStr, A |-> FALSE, ctx |-> EmptyStr] }

FlagInit ==
    \E cat \in {<< >>, <<Widgets, Gadgets>>} :
        InitWith(cat, Timeouts, AllFlags, {NumCPU}, "start", << >>)

FlagSpec == FlagInit /\ [][Next]_vars

(***************************************************************************)
(* Vocabulary of the properties                                            *)
(***************************************************************************)
SeqSet(s) == { s[i] : i \in 1..Len(s) }

PoolStarted == numWorkers > 0

JobAt(k) == namespacedCRDs[k]

JobIdx == 1..Len(namespacedCRDs)

\* a < b in lexicographic order by code point, stated on positions
LexLT(a, b) ==
    \E i \in 1..Len(b) :
        /\ i <= Len(a) + 1
        /\ \A j \in 1..(i - 1) : a[j] = b[j]
        /\ (i = Len(a) + 1 \/ a[i] < b[i])

KeyOf(r) == <<r.crdName, r.resourceName, r.namespace, r.instanceName>>

\* four-key order: crdName, then resourceName, then namespace, then instanceName
KeyLT(x, y) ==
    \E i \in 1..4 :
        /\ \A j \in 1..(i - 1) : KeyOf(x)[j] = KeyOf(y)[j]
        /\ LexLT(KeyOf(x)[i], KeyOf(y)[i])

KeyLeq(x, y) == KeyLT(x, y) \/ KeyOf(x) = KeyOf(y)

Count(s, x) == Cardinality({ i \in 1..Len(s) : s[i] = x })

IsPermutation(s, t) ==
    /\ Len(s) = Len(t)
    /\ \A x \in SeqSet(s) \cup SeqSet(t) : Count(s, x) = Count(t, x)

\* an instance is in the scope of the scan
InScope(it) == allNamespaces \/ namespace = EmptyStr \/ it.namespace = namespace

\* the Found Resources the cluster holds for descriptor d in the scope of the scan
ExpectedFound(d) ==
    { [crdName |-> d.Name, resourceName |-> d.Plural,
       instanceName |-> it.name, namespace |-> it.namespace] :
         it \in { x \in SeqSet(ClusterItems(d.Name)) : InScope(x) } }

\* the storage-version rule of the data model, stated on positions
ResolvedVersion(vs) ==
    IF \E i \in 1..Len(vs) : vs[i].Storage
    THEN vs[CHOOSE i \in 1..Len(vs) :
                vs[i].Storage /\ \A j \in 1..(i - 1) : ~vs[j].Storage].Name
    ELSE IF vs # << >> THEN vs[1].Name
    ELSE EmptyStr

EligibleDesc(d) == d.Scope = Namespaced /\ ResolvedVersion(d.Versions) # EmptyStr

FilterComplete == mainPc # "filter" \/ filterIdx > Len(crdList)

JobsOf(d) == { k \in JobIdx : JobAt(k).crd = d }

(***************************************************************************)
(* C1                                                                      *)
(***************************************************************************)
\* C1 as stated: in any run that reports, every job of the filtered job set
\* was handed to the Instance Query Client exactly once.
C1_EveryJobQueriedInAnyRun ==
    (mainPc = "done" /\ PoolStarted) =>
        \A k \in JobIdx : queryCount[JobAt(k).crd.Name] = 1

\* C1 amended: no job is queried more than once, a job still queued has not
\* been queried and is queued once, two workers never work on the same job,
\* and in a run that reports without the deadline having fired every job was
\* queried exactly once.
C1_AtMostOnceExactlyOnceIfComplete ==
    /\ \A n \in DOMAIN queryCount : queryCount[n] <= 1
    /\ \A i \in 1..Len(jobs) :
         /\ queryCount[jobs[i].crd.Name] = 0
         /\ \A j \in 1..Len(jobs) : jobs[i] = jobs[j] => i = j
    /\ \A w1, w2 \in Workers :
         (w1 # w2 /\ wpc[w1] \in {"check", "call", "query", "send"}
                  /\ wpc[w2] \in {"check", "call", "query", "send"})
            => wjob[w1] # wjob[w2]
    /\ (mainPc = "done" /\ PoolStarted /\ ~Cancelled) =>
         \A k \in JobIdx : queryCount[JobAt(k).crd.Name] = 1

C1_Witness ==
    /\ mainPc = "done"
    /\ ~Cancelled
    /\ Len(namespacedCRDs) = 2
    /\ \A k \in JobIdx : queryCount[JobAt(k).crd.Name] = 1

(***************************************************************************)
(* C2                                                                      *)
(***************************************************************************)
\* the safety part of C2
C2_Isolation ==
    /\ (mainPc = "done" /\ PoolStarted /\ ~Cancelled) =>
         \A k \in JobIdx :
            /\ outcome[JobAt(k).crd.Name] = "ok" =>
                  ExpectedFound(JobAt(k).crd) \subseteq SeqSet(allResults)
            /\ outcome[JobAt(k).crd.Name] = "err" =>
                  \A r \in SeqSet(allResults) : r.crdName # JobAt(k).crd.Name
    /\ (mainPc = "fatal" /\ PoolStarted) => Cancelled
    /\ \A w \in Workers :
         (wpc[w] = "exit" /\ ~Cancelled) => (jobsClosed /\ jobs = << >>)

\* C2: when the deadline does not fire, the reported result set holds every
\* found resource of every job whose query succeeded and none of a job whose
\* query failed; after the pool started the run is fatal only if the deadline
\* fired; a worker that has exited while the deadline has not fired found the
\* job source closed and drained (a failed query does not end it); and once
\* the pool is started the run reaches its report unless the deadline fires.
C2_PartialFailureIsolation ==
    /\ []C2_Isolation
    /\ PoolStarted ~> (Cancelled \/ mainPc = "done")

C2_Witness ==
    /\ mainPc = "done"
    /\ ~Cancelled
    /\ \E k1, k2 \in JobIdx :
         /\ outcome[JobAt(k1).crd.Name] = "err"
         /\ outcome[JobAt(k2).crd.Name] = "ok"
         /\ ExpectedFound(JobAt(k2).crd) # {}
         /\ ExpectedFound(JobAt(k2).crd) = SeqSet(allResults)

(***************************************************************************)
(* C3                                                                      *)
(***************************************************************************)
\* C3 as stated: a List call returns without error only before the deadline
\* fires; in a run that reports, the found resources of every job whose query
\* succeeded are in the result set, and a job whose query did not succeed
\* contributes nothing.
C3_CompletenessUnderDeadline ==
    mainPc = "done" =>
        \A k \in JobIdx :
            /\ outcome[JobAt(k).crd.Name] = "ok" =>
                  ExpectedFound(JobAt(k).crd) \subseteq SeqSet(allResults)
            /\ outcome[JobAt(k).crd.Name] # "ok" =>
                  \A r \in SeqSet(allResults) : r.crdName # JobAt(k).crd.Name

(***************************************************************************)
(* C4                                                                      *)
(***************************************************************************)
\* C4 as stated: once the pool is started, every worker eventually exits, the
\* result channel is closed, the collection loop ends and the run reports.
C4_TerminatesThroughBarrier ==
    (mainPc = "dispatch") ~>
        (mainPc = "done" /\ resultsClosed /\ \A w \in Workers : wpc[w] = "exit")

(***************************************************************************)
(* C5                                                                      *)
(***************************************************************************)
\* C5 as stated: a run in which the deadline fired after the pool was started
\* ends as a successful run that printed what was collected, never fatally.
C5_DeadlineTruncatesGracefully ==
    (Exited /\ PoolStarted /\ Cancelled) =>
        /\ mainPc = "done"
        /\ stderr = ""
        /\ stdout = Render(allResults, allNamespaces, namespace)

(***************************************************************************)
(* C6                                                                      *)
(***************************************************************************)
\* the deadline cut the run: it fired and some job was never queried
Truncated == Cancelled /\ \E k \in JobIdx : queryCount[JobAt(k).crd.Name] = 0

\* C6 as stated: a truncated run with an empty result set ends with an outcome
\* (exit status, standard output, standard error) other than that of a
\* complete run without matches.
C6_TruncatedRunReportedDistinctly ==
    (mainPc = "done" /\ PoolStarted /\ Truncated /\ allResults = << >>) =>
        <<ExitCode, stdout, stderr>> # <<0, Render(<< >>, allNamespaces, namespace), "">>

(***************************************************************************)
(* C7                                                                      *)
(***************************************************************************)
\* what the cluster holds for the jobs whose query succeeded, in catalog order
RECURSIVE ClusterFound(_)
ClusterFound(i) ==
    IF i > Len(catalog) THEN << >>
    ELSE (IF outcome[catalog[i].Name] = "ok"
          THEN LET its == SelectSeq(ClusterItems(catalog[i].Name), InScope)
               IN [n \in 1..Len(its) |->
                     [crdName |-> catalog[i].Name, resourceName |-> catalog[i].Plural,
                      instanceName |-> its[n].name, namespace |-> its[n].namespace]]
          ELSE << >>)
         \o ClusterFound(i + 1)

\* C7: without deadline expiry the printed rows are those of the one strictly
\* increasing arrangement of what the cluster holds for the succeeding
\* queries, whatever the interleaving and the arrival order of the batches.
C7_Determinism ==
    (mainPc = "done" /\ PoolStarted /\ ~Cancelled) =>
        /\ IsPermutation(allResults, ClusterFound(1))
        /\ \A i \in 1..(Len(allResults) - 1) : KeyLT(allResults[i], allResults[i + 1])
        /\ stdout = Render(allResults, allNamespaces, namespace)

C7_Witness ==
    /\ mainPc = "done"
    /\ ~Cancelled
    /\ Len(allResults) >= 3
    /\ \A k \in JobIdx : outcome[JobAt(k).crd.Name] = "ok"
    /\ Len(stdout.rows) = Len(allResults)

(***************************************************************************)
(* C8                                                                      *)
(***************************************************************************)
\* C8: the step that ends the collection leaves the results ordered by
\* (crdName, resourceName, namespace, instanceName), adjacent rows in
\* non-decreasing order, as a permutation of the collection it started from,
\* and prints them in that order.
C8_SortedPermutation ==
    [][(mainPc = "collect" /\ mainPc' = "done") =>
         /\ IsPermutation(allResults, allResults')
         /\ \A i \in 1..(Len(allResults') - 1) : KeyLeq(allResults'[i], allResults'[i + 1])
         /\ stdout'.rows = Rows(allResults', allNamespaces)]_vars

C8_Witness ==
    /\ mainPc = "done"
    /\ allNamespaces
    /\ \E i \in 1..(Len(allResults) - 1) :
         /\ allResults[i].crdName = allResults[i + 1].crdName
         /\ LexLT(allResults[i].namespace, allResults[i + 1].namespace)
         /\ LexLT(allResults[i + 1].instanceName, allResults[i].instanceName)
    /\ \E i \in 1..(Len(allResults) - 1) :
         LexLT(allResults[i].crdName, allResults[i + 1].crdName)

(***************************************************************************)
(* C9                                                                      *)
(***************************************************************************)
\* C9: after the filter loop the job list holds exactly one job for each
\* descriptor that is namespaced and has a non-empty resolved storage version,
\* none for any other descriptor, and each job carries the coordinate
\* (group, resolved version, plural) and the name of its descriptor.
C9_FilteredJobSet ==
    FilterComplete =>
        /\ \A i \in 1..Len(crdList) :
             Cardinality(JobsOf(crdList[i])) = IF EligibleDesc(crdList[i]) THEN 1 ELSE 0
        /\ \A k \in JobIdx :
             \E i \in 1..Len(crdList) :
                /\ JobAt(k).crd = crdList[i]
                /\ JobAt(k).crd.Name = crdList[i].Name
                /\ JobAt(k).gvr = [Group |-> crdList[i].Group,
                                   Version |-> ResolvedVersion(crdList[i].Versions),
                                   Resource |-> crdList[i].Plural]

C9_Witness ==
    /\ FilterComplete
    /\ Len(crdList) = 2
    /\ Len(namespacedCRDs) = 1
    /\ crdList[1].Scope = ClusterScoped
    /\ JobAt(1).crd = crdList[2]

(***************************************************************************)
(* C10                                                                     *)
(***************************************************************************)
\* C10: for every namespaced descriptor the filter has looked at, the stored
\* version of its job is the name of the first version flagged storage, of the
\* first declared version if none is flagged, and a descriptor without
\* versions has no job.
C10_StoredVersionResolution ==
    \A i \in 1..(filterIdx - 1) :
        crdList[i].Scope = Namespaced =>
            LET vs == crdList[i].Versions
                flagged == { n \in 1..Len(vs) : vs[n].Storage }
            IN IF vs = << >> THEN JobsOf(crdList[i]) = {}
               ELSE /\ JobsOf(crdList[i]) # {}
                    /\ \A k \in JobsOf(crdList[i]) :
                         IF flagged # {}
                         THEN \E n \in flagged :
                                /\ \A m \in flagged : n <= m
                                /\ JobAt(k).storedVersion = vs[n].Name
                         ELSE JobAt(k).storedVersion = vs[1].Name

C10_Witness ==
    /\ filterIdx > 2
    /\ Len(crdList) = 2
    /\ crdList[1].Versions = <<Version(V1, FALSE), Version(V2, TRUE)>>
    /\ crdList[2].Versions = <<Version(V2, FALSE), Version(V1, FALSE)>>
    /\ crdList[2].Scope = Namespaced
    /\ Len(namespacedCRDs) = 2
    /\ JobAt(1).storedVersion = V2
    /\ JobAt(2).storedVersion = V2

(***************************************************************************)
(* C11                                                                     *)
(***************************************************************************)
\* the eligible descriptors of the cluster
EligibleInCluster == { i \in 1..Len(catalog) : EligibleDesc(catalog[i]) }

\* the row main prints for a found resource
RowOf(r) ==
    IF allNamespaces THEN <<r.namespace, r.crdName, r.resourceName, r.instanceName>>
    ELSE <<r.crdName, r.resourceName, r.instanceName>>

\* C11: when the query of every eligible CRD succeeded and the deadline did
\* not fire, the results are the instances of the eligible CRDs in the scope
\* of the scan, each once, in increasing four-key order, and the printed rows
\* are their rows in that order (the "no resources" message if there is none).
C11_EndToEnd ==
    (/\ mainPc = "done"
     /\ PoolStarted
     /\ ~Cancelled
     /\ \A i \in EligibleInCluster : outcome[catalog[i].Name] = "ok") =>
        LET expected == UNION { ExpectedFound(catalog[i]) : i \in EligibleInCluster }
        IN /\ SeqSet(allResults) = expected
           /\ Len(allResults) = Cardinality(expected)
           /\ \A i \in 1..(Len(allResults) - 1) : KeyLT(allResults[i], allResults[i + 1])
           /\ Len(stdout.rows) = Len(allResults)
           /\ \A i \in 1..Len(allResults) : stdout.rows[i] = RowOf(allResults[i])
           /\ (expected = {}) = (stdout.header = << >>)
           /\ (expected = {}) = (stdout.msg # "")

\* the scenario of two eligible CRDs in all-namespaces mode
C11_Witness ==
    /\ mainPc = "done"
    /\ ~Cancelled
    /\ catalog = <<Widgets, Gadgets>>
    /\ stdout.rows = << <<Ns1, Gadgets.Name, PluralG, NameB>>,
                        <<Ns2, Gadgets.Name, PluralG, NameA>>,
                        <<Ns1, Widgets.Name, PluralW, NameF>> >>

(***************************************************************************)
(* C12                                                                     *)
(***************************************************************************)
\* the least element of a set of numbers
Least(S) == CHOOSE m \in S : \A x \in S : m <= x

\* C12: once main is past the filter, the number of workers started is
\* min(20, number of jobs, 3 x number of CPUs), and 0 without jobs.
C12_WorkerCount ==
    mainPc \in {"dispatch", "done"} =>
        /\ numWorkers = Least({20, Len(namespacedCRDs), numCPU * 3})
        /\ DOMAIN wpc = 1..numWorkers
        /\ Len(namespacedCRDs) = 0 => numWorkers = 0

\* the cap of 20 decides
C12_Witness ==
    /\ mainPc = "dispatch"
    /\ numWorkers = 20
    /\ Len(namespacedCRDs) > 20
    /\ numCPU * 3 > 20

(***************************************************************************)
(* C13                                                                     *)
(***************************************************************************)
\* main is past the filter loop
PastFilter ==
    \/ mainPc \in {"dispatch", "abort", "collect", "done"}
    \/ mainPc = "fatal" /\ stderr = "Timeout while sending jobs"

\* C13: with an empty job list main is done past the filter, having printed
\* the "no namespaced custom resources" message and nothing else, with no
\* channel used, no worker started and no List call issued.
C13_EmptyJobSetShortCircuits ==
    (PastFilter /\ Len(namespacedCRDs) = 0) =>
        /\ mainPc = "done"
        /\ stdout = [msg |-> "No namespaced custom resources found in cluster",
                     arg |-> EmptyStr, header |-> << >>, rows |-> << >>]
        /\ stderr = ""
        /\ numWorkers = 0
        /\ wpc = << >>
        /\ jobs = << >> /\ ~jobsClosed
        /\ results = << >> /\ ~resultsClosed /\ ~closerStarted
        /\ \A n \in DOMAIN queryCount : queryCount[n] = 0

C13_Witness ==
    /\ mainPc = "done"
    /\ Len(crdList) = 2
    /\ Len(namespacedCRDs) = 0
    /\ stdout.msg = "No namespaced custom resources found in cluster"

(***************************************************************************)
(* C14                                                                     *)
(***************************************************************************)
\* C14: the CRD list call runs under the overall deadline: it cannot return
\* descriptors once the deadline has fired, and when it fails the process
\* exits with status 1 and the message "Error listing CRDs", having built no
\* job, started no worker, issued no List call and printed nothing.
C14_ListFailureIsFatal ==
    /\ []((mainPc = "fatal" /\ stderr = "Error listing CRDs") =>
            /\ ExitCode = 1
            /\ crdList = << >>
            /\ filterIdx = 1
            /\ namespacedCRDs = << >>
            /\ numWorkers = 0
            /\ jobs = << >> /\ results = << >>
            /\ \A n \in DOMAIN queryCount : queryCount[n] = 0
            /\ stdout = NoOutput)
    /\ [][(mainPc = "list" /\ mainPc' # "list") =>
            \/ (~Cancelled /\ mainPc' = "filter" /\ crdList' = catalog)
            \/ (mainPc' = "fatal" /\ stderr' = "Error listing CRDs")]_vars

\* the deadline fired before the list call on a cluster that has CRDs
C14_Witness ==
    /\ mainPc = "fatal"
    /\ stderr = "Error listing CRDs"
    /\ Cancelled
    /\ Len(catalog) > 0

(***************************************************************************)
(* C15                                                                     *)
(***************************************************************************)
\* the found resources main holds or that are on their way to main
FoundInFlight ==
    SeqSet(allResults)
    \cup UNION { SeqSet(results[i]) : i \in 1..Len(results) }
    \cup UNION { SeqSet(workerResults[w]) : w \in { v \in Workers : wpc[v] = "send" } }

\* C15: in all-namespaces mode the resolved namespace is empty whatever the
\* -n flag says and every List call is cluster-wide; otherwise the resolved
\* namespace is the -n flag, else the namespace of the kubeconfig context,
\* else "default", and every List call is made in it.  A found resource
\* carries the namespace of the instance it was made from.
C15_AllNamespacesOverride ==
    /\ []((mainPc # "start" /\ stderr \notin {"Error loading kubeconfig", "panic"}) =>
            /\ allNamespaces => namespace = EmptyStr
            /\ ~allNamespaces => namespace # EmptyStr
            /\ \A n \in DOMAIN queryArgs : \A i \in 1..Len(queryArgs[n]) :
                   queryArgs[n][i] = (IF allNamespaces THEN EmptyStr ELSE namespace)
            /\ \A r \in FoundInFlight :
                   /\ \E k \in 1..Len(ClusterItems(r.crdName)) :
                          /\ ClusterItems(r.crdName)[k].name = r.instanceName
                          /\ ClusterItems(r.crdName)[k].namespace = r.namespace
                   /\ ~allNamespaces => r.namespace = namespace)
    /\ [][(mainPc = "start" /\ mainPc' = "list") =>
            namespace' = (IF allNamespaces THEN EmptyStr
                          ELSE IF namespace # EmptyStr THEN namespace
                          ELSE IF ctxNamespace # EmptyStr THEN ctxNamespace
                          ELSE DefaultNs)]_vars

\* -A together with a namespace: instances of two namespaces are reported
C15_Witness ==
    /\ mainPc = "done"
    /\ allNamespaces
    /\ ctxNamespace = Ns1
    /\ \E i, j \in 1..Len(allResults) :
           allResults[i].namespace = Ns1 /\ allResults[j].namespace = Ns2

(***************************************************************************)
(* C16                                                                     *)
(***************************************************************************)
\* C16: a job whose List call failed is not queried again: no CRD is ever
\* queried twice, a failed job is neither back in the job queue nor held by
\* a working worker, and a recorded outcome never changes.
C16_NoRetry ==
    /\ [](\A n \in DOMAIN queryCount :
            /\ queryCount[n] <= 1
            /\ Len(queryArgs[n]) = queryCount[n]
            /\ outcome[n] = "err" =>
                 /\ queryCount[n] = 1
                 /\ \A i \in 1..Len(jobs) : jobs[i].crd.Name # n
                 /\ \A w \in Workers :
                        wpc[w] \in {"check", "call", "query", "send"} =>
                            wjob[w].crd.Name # n)
    /\ [][\A n \in DOMAIN outcome :
            outcome[n] \in {"ok", "err"} =>
                outcome'[n] = outcome[n] /\ queryCount'[n] = queryCount[n]]_vars

\* a run that finished with a failed job that was queried once
C16_Witness ==
    /\ mainPc = "done"
    /\ \E n \in DOMAIN outcome : outcome[n] = "err" /\ queryCount[n] = 1

(***************************************************************************)
(* C17                                                                     *)
(***************************************************************************)
\* C17 as stated: once the deadline has fired no List call begins.
C17_NoQueryAfterDeadline == [][Cancelled => queryCount' = queryCount]_vars

\* C17: a worker that checks ctx after the deadline has fired, so every
\* worker that pulled its job after the deadline, exits without querying the
\* job; a worker that passed the check before the deadline fired may still
\* issue the List call of the job it holds, and no List call returns
\* instances once the deadline has fired.  A worker exits only at the job
\* receive (job source closed and drained), at the check after a receive
\* (deadline fired) or at the result hand-off (deadline fired), and every
\* worker of a run that is not aborted does exit.
C17_CheckedCancellation ==
    /\ [][\A w \in Workers :
            (wpc[w] = "check" /\ wpc'[w] # "check" /\ Cancelled) =>
                wpc'[w] = "exit" /\ queryCount' = queryCount]_vars
    /\ [][\A w \in Workers :
            (wpc[w] = "recv" /\ wpc'[w] # "recv" /\ jobs # << >>) =>
                wpc'[w] = "check" /\ queryCount' = queryCount]_vars
    /\ [][\A n \in DOMAIN queryCount :
            (Cancelled /\ queryCount'[n] # queryCount[n]) =>
                \E w \in Workers : wpc[w] = "call" /\ wjob[w].crd.Name = n]_vars
    /\ [][Cancelled => \A n \in DOMAIN outcome : outcome'[n] = "ok" => outcome[n] = "ok"]_vars
    /\ [][\A w \in Workers :
            (wpc[w] # "exit" /\ wpc'[w] = "exit") =>
                \/ wpc[w] = "recv" /\ jobs = << >> /\ jobsClosed
                \/ wpc[w] = "check" /\ Cancelled
                \/ wpc[w] = "send" /\ Cancelled]_vars
    /\ PoolStarted ~> (mainPc = "fatal" \/ \A w \in Workers : wpc[w] = "exit")

\* a worker that pulled a job after the deadline and left without a List call
C17_Witness ==
    \E w \in Workers :
        /\ wpc[w] = "exit"
        /\ Cancelled
        /\ wjob[w] # NoJob
        /\ queryCount[wjob[w].crd.Name] = 0
        /\ \A v \in Workers : v # w => wjob[v] # wjob[w]

(***************************************************************************)
(* C18                                                                     *)
(***************************************************************************)
\* b is the whole instance list of one successful job, and nothing else
BatchOfOneJob(b) ==
    /\ b # << >>
    /\ \E k \in JobIdx :
          /\ outcome[JobAt(k).crd.Name] = "ok"
          /\ SeqSet(b) = ExpectedFound(JobAt(k).crd)
          /\ Len(b) = Cardinality(ExpectedFound(JobAt(k).crd))
          /\ \A i \in 1..Len(b) :
                 /\ b[i].crdName = JobAt(k).crd.Name
                 /\ b[i].resourceName = JobAt(k).crd.Plural

\* C18: every batch on the result channel, and every batch a worker is about
\* to send, is non-empty and is the whole instance list of exactly one
\* successful job under that job's CRD name and plural; the scratch slice is
\* empty while a List call runs; the batches on the channel only change by a
\* send at the tail or a receive at the head.
C18_BatchIntegrity ==
    /\ [](/\ \A i \in 1..Len(results) : BatchOfOneJob(results[i])
          /\ \A w \in Workers :
                /\ wpc[w] = "send" => BatchOfOneJob(workerResults[w])
                /\ wpc[w] = "query" => workerResults[w] = << >>)
    /\ [][\/ results' = results
          \/ results # << >> /\ results' = Tail(results)
          \/ \E w \in Workers : wpc[w] = "send" /\ results' = Append(results, workerResults[w])]_vars

\* the only worker that ever pulled a job sends its second batch
C18_Witness ==
    \E w \in Workers :
        /\ wpc[w] = "send"
        /\ Len(results) = 1
        /\ results[1][1].crdName # workerResults[w][1].crdName
        /\ \A v \in Workers : v # w => wjob[v] = NoJob

(***************************************************************************)
(* C19                                                                     *)
(***************************************************************************)
\* C19: the result channel is closed by the closer goroutine only, not before
\* every worker has exited; once closed it stays closed and nothing is sent
\* on it; main leaves the collection loop for the sort only when the channel
\* is closed and drained and every worker has exited; a run whose dispatch
\* loop has ended does get its result channel closed.
C19_ResultsClosedAfterQuiescence ==
    /\ [](resultsClosed => closerStarted /\ \A w \in Workers : wpc[w] = "exit")
    /\ [][(~resultsClosed /\ resultsClosed') =>
            /\ closerStarted
            /\ \A w \in Workers : wpc[w] = "exit"
            /\ UNCHANGED <<results, mainPc, wpc>>]_vars
    /\ [][resultsClosed =>
            /\ resultsClosed'
            /\ (results' = results \/ results' = Tail(results))]_vars
    /\ [][(mainPc = "collect" /\ mainPc' = "done") =>
            /\ resultsClosed
            /\ results = << >>
            /\ \A w \in Workers : wpc[w] = "exit"]_vars
    /\ (mainPc = "collect") ~> resultsClosed

\* the channel is closed while batches still wait for main
C19_Witness ==
    /\ resultsClosed
    /\ mainPc = "collect"
    /\ Len(results) = 2

(***************************************************************************)
(* C20                                                                     *)
(***************************************************************************)
\* C20: the job channel is closed by main in the dispatch loop only: either
\* when every job has been sent, and main goes on to collect, or when the
\* deadline has fired, and the next step of main is the abort; once closed it
\* stays closed, nothing is sent on it and main makes no further dispatch
\* attempt; main never leaves the dispatch loop with the channel open, and the
\* channel of a started pool does get closed.
C20_JobsClosedOnce ==
    /\ [][(~jobsClosed /\ jobsClosed') =>
            /\ mainPc = "dispatch"
            /\ \/ /\ dispatchIdx > Len(namespacedCRDs)
                  /\ mainPc' = "collect"
               \/ /\ Cancelled
                  /\ mainPc' = "abort"
            /\ jobs' = jobs]_vars
    /\ [][(mainPc = "abort" /\ mainPc' # "abort") =>
            mainPc' = "fatal" /\ stderr' = "Timeout while sending jobs"]_vars
    /\ [](mainPc = "abort" => Cancelled /\ ~closerStarted)
    /\ [][jobsClosed =>
            /\ jobsClosed'
            /\ (jobs' = jobs \/ jobs' = Tail(jobs))
            /\ dispatchIdx' = dispatchIdx
            /\ mainPc' # "dispatch"]_vars
    /\ []((PoolStarted /\ mainPc # "dispatch") => jobsClosed)
    /\ []((~PoolStarted \/ mainPc = "dispatch") => ~jobsClosed)
    /\ PoolStarted ~> jobsClosed

\* the deadline path: closed with one job sent and one never sent
C20_Witness ==
    /\ jobsClosed
    /\ mainPc = "fatal"
    /\ dispatchIdx = 2
    /\ Len(namespacedCRDs) = 2

(***************************************************************************)
(* C21                                                                     *)
(***************************************************************************)
\* the workers that hold a batch they have not sent yet
Senders == { w \in Workers : wpc[w] = "send" }

\* C21: both channels have room for as many elements as there are jobs; the
\* job channel holds at most the jobs dispatched so far; the batches on the
\* result channel and the batches about to be sent are of pairwise different
\* jobs, none of which main has collected yet, so they are at most as many as
\* there are jobs; whenever main has a job left to dispatch its send can be
\* taken, and whenever a worker of the running process holds a batch its send
\* can be taken.
C21_HandOffsNeverBlock ==
    PoolStarted =>
        /\ ChanCap = Len(namespacedCRDs)
        /\ Len(jobs) <= dispatchIdx - 1
        /\ dispatchIdx - 1 <= Len(namespacedCRDs)
        /\ \A i, j \in 1..Len(results) :
               i # j => results[i][1].crdName # results[j][1].crdName
        /\ \A w \in Senders :
               /\ \A i \in 1..Len(results) :
                      results[i][1].crdName # workerResults[w][1].crdName
               /\ \A v \in Senders :
                      v # w => workerResults[v][1].crdName # workerResults[w][1].crdName
               /\ \A i \in 1..Len(allResults) :
                      allResults[i].crdName # workerResults[w][1].crdName
        /\ \A i \in 1..Len(results) : \A k \in 1..Len(allResults) :
               allResults[k].crdName # results[i][1].crdName
        /\ Len(results) + Cardinality(Senders) <= Len(namespacedCRDs)
        /\ (mainPc = "dispatch" /\ dispatchIdx <= Len(namespacedCRDs)) =>
               ENABLED (Dispatch /\ dispatchIdx' = dispatchIdx + 1)
        /\ ~Exited => \A w \in Senders : ENABLED (SendResult(w) /\ results' # results)

\* the fullest case: main has collected nothing, one batch waits on the
\* channel and a worker holds the batch of the last job
C21_Witness ==
    /\ Len(namespacedCRDs) = 2
    /\ Len(results) = 1
    /\ allResults = << >>
    /\ Senders # {}

(***************************************************************************)
(* C22                                                                     *)
(***************************************************************************)
\* the workers whose List call is in flight
Querying == { w \in Workers : wpc[w] = "query" }

\* C22: the deadline of a List call is the lesser of (start of the call + 5)
\* and the overall deadline, so it is never later than the overall deadline;
\* a List call that returns once either has fired returns an error, and the
\* worker drops the job (no batch, no result) and goes on to the next.
C22_NestedSubDeadline ==
    /\ [](\A w \in Querying : reqDeadline[w] <= deadline /\ reqDeadline[w] <= now + 5)
    /\ [][\A w \in Workers :
            (wpc[w] = "call" /\ wpc'[w] # "call") =>
                /\ reqDeadline'[w] <= now + 5
                /\ reqDeadline'[w] <= deadline
                /\ reqDeadline'[w] \in {now + 5, deadline}]_vars
    /\ [][\A w \in Querying :
            (wpc'[w] # "query" /\ (now >= reqDeadline[w] \/ Cancelled)) =>
                /\ outcome'[wjob[w].crd.Name] = "err"
                /\ wpc'[w] = "recv"
                /\ results' = results
                /\ mainPc' = mainPc /\ stderr' = stderr]_vars

\* the sub-deadline of a running List call fires before the overall deadline
C22_Witness ==
    \E w \in Querying :
        /\ reqDeadline[w] = 5
        /\ now >= reqDeadline[w]
        /\ ~Cancelled

(***************************************************************************)
(* C23                                                                     *)
(***************************************************************************)
\* the List calls the Instance Query Client has received and not answered
ClientInFlight == { n \in DOMAIN queryCount : queryCount[n] > 0 /\ outcome[n] = "none" }

\* C23: the List calls in flight at the client are never more than the
\* workers started, than 20, or than the jobs; every call in flight is the
\* call of exactly one worker that waits for it, and a waiting worker waits
\* for one call in flight.
C23_BoundedConcurrency ==
    /\ Cardinality(ClientInFlight) <= numWorkers
    /\ Cardinality(ClientInFlight) <= 20
    /\ Cardinality(ClientInFlight) <= Len(namespacedCRDs)
    /\ \A n \in ClientInFlight :
           Cardinality({ w \in Querying : wjob[w].crd.Name = n }) = 1
    /\ \A w \in Querying : wjob[w].crd.Name \in ClientInFlight

\* every worker waits for a List call while a job waits in the queue
C23_Witness ==
    /\ PoolStarted
    /\ numWorkers < Len(namespacedCRDs)
    /\ Cardinality(ClientInFlight) = numWorkers
    /\ jobs # << >>

(***************************************************************************)
(* C24                                                                     *)
(***************************************************************************)
\* the coordinate the data model gives descriptor d
CoordinateOf(d) ==
    [Group |-> d.Group, Version |-> ResolvedVersion(d.Versions), Resource |-> d.Plural]

\* the jobs that are queued, held by a working worker, or in the job list
LiveJobs ==
    SeqSet(namespacedCRDs) \cup SeqSet(jobs)
    \cup { wjob[w] : w \in { v \in Workers : wpc[v] \in {"check", "call", "query", "send"} } }

\* C24: every Found Resource main holds is an instance, in the scope of the
\* scan, of a namespace-scoped descriptor with a resolved version whose job's
\* List call succeeded; every job carries the coordinate of its descriptor
\* from the filter to the List call; main holds no Found Resource twice, and
\* none of a descriptor that is cluster-scoped, versionless, failed, not yet
\* answered, or whose batch is still on its way.
C24_ResultSetSoundness ==
    /\ \A r \in SeqSet(allResults) :
          \E k \in JobIdx :
              /\ JobAt(k).crd.Name = r.crdName
              /\ EligibleDesc(JobAt(k).crd)
              /\ \E i \in 1..Len(catalog) : catalog[i] = JobAt(k).crd
              /\ outcome[r.crdName] = "ok"
              /\ queryCount[r.crdName] = 1
              /\ r \in ExpectedFound(JobAt(k).crd)
    /\ \A j \in LiveJobs :
          /\ j.gvr = CoordinateOf(j.crd)
          /\ j.storedVersion = ResolvedVersion(j.crd.Versions)
    /\ Len(allResults) = Cardinality(SeqSet(allResults))
    /\ \A i \in 1..Len(catalog) :
          (~EligibleDesc(catalog[i]) \/ outcome[catalog[i].Name] # "ok") =>
              \A r \in SeqSet(allResults) : r.crdName # catalog[i].Name
    /\ \A r \in SeqSet(allResults) : \A q \in FoundInFlight \ SeqSet(allResults) :
          r.crdName # q.crdName

\* main holds the instances of one CRD; another failed, a third is cluster-scoped
C24_Witness ==
    /\ catalog = <<Gadgets, ClusterKind, WidgetsEx>>
    /\ Len(allResults) = 2
    /\ outcome[WidgetsEx.Name] = "err"

====
